---- MODULE Spec2Model ----
(***************************************************************************)
(* sway_update: the i3-ipc frame codec, the transport session and the      *)
(* subscribe / read / dispatch loop of the Daemon, together with the peer   *)
(* (the window manager) at the other end of the socket and the eww sink.    *)
(*                                                                          *)
(* Bytes are integers 0..255.  A u32 is written as its four base-256        *)
(* digits, most significant first (<<128, 0, 0, 6>> is 0x8000_0006), since  *)
(* the values above 2^31 - 1 are outside the model checker's integers;      *)
(* to_ne_bytes / from_ne_bytes order the digits as the host does.           *)
(***************************************************************************)
EXTENDS Integers, Sequences, FiniteSets, TLC

\* ------------------------------------------------------------------------
\* Bounds of the model
\* ------------------------------------------------------------------------

\* frames the peer sends over the life of the connection
MaxFrames == 3

\* workspaces in a listing given to the request dispatcher on its own
MaxListing == 2

\* the largest workspace number in such a listing
MaxNum == 9

\* the small bytes tried in a header's tag given to the frame decoder on
\* its own are 0..MaxTagByte
MaxTagByte == 13

\* the length of the longest payload given to a request composed on its own
MaxPayload == 300

\* ------------------------------------------------------------------------
\* Program constants
\* ------------------------------------------------------------------------

\* b"i3-ipc"
I3_MAGIC_STRING == <<105, 51, 45, 105, 112, 99>>

HEADER_LENGTH == 14

\* capacity of the BufReader that from_read wraps around the session
DEFAULT_BUF_SIZE == 8192

MessageTypeTag ==
    [ RunCommands     |-> <<0, 0, 0, 0>>,
      GetWorkspaces   |-> <<0, 0, 0, 1>>,
      Subscribe       |-> <<0, 0, 0, 2>>,
      GetOutputs      |-> <<0, 0, 0, 3>>,
      GetTree         |-> <<0, 0, 0, 4>>,
      GetMarks        |-> <<0, 0, 0, 5>>,
      GetBarConfig    |-> <<0, 0, 0, 6>>,
      GetVersion      |-> <<0, 0, 0, 7>>,
      GetBindingModes |-> <<0, 0, 0, 8>>,
      GetConfig       |-> <<0, 0, 0, 9>>,
      SendTick        |-> <<0, 0, 0, 10>>,
      Sync            |-> <<0, 0, 0, 11>>,
      GetBindingState |-> <<0, 0, 0, 12>>,
      GetInputs       |-> <<0, 0, 0, 100>>,
      GetSeats        |-> <<0, 0, 0, 101>> ]

\* (mutant: the tags without the event bit)
EventTypeTag_NoEventBit ==
    [ Workspace       |-> <<0, 0, 0, 0>>,
      Mode            |-> <<0, 0, 0, 2>>,
      Window          |-> <<0, 0, 0, 3>>,
      BarConfigUpdate |-> <<0, 0, 0, 4>>,
      Binding         |-> <<0, 0, 0, 5>>,
      Shutdown        |-> <<0, 0, 0, 6>>,
      Tick            |-> <<0, 0, 0, 7>>,
      BarStateUpdate  |-> <<0, 0, 0, 20>>,
      Input           |-> <<0, 0, 0, 21>> ]

EventTypeTag ==
    [ Workspace       |-> <<128, 0, 0, 0>>,
      Mode            |-> <<128, 0, 0, 2>>,
      Window          |-> <<128, 0, 0, 3>>,
      BarConfigUpdate |-> <<128, 0, 0, 4>>,
      Binding         |-> <<128, 0, 0, 5>>,
      Shutdown        |-> <<128, 0, 0, 6>>,
      Tick            |-> <<128, 0, 0, 7>>,
      BarStateUpdate  |-> <<128, 0, 0, 20>>,
      Input           |-> <<128, 0, 0, 21>> ]

\* ------------------------------------------------------------------------
\* Payload texts (ASCII) that occur on the wire in this model
\* ------------------------------------------------------------------------

\* ["window"]
ArgsWindow ==
    <<91, 34, 119, 105, 110, 100, 111, 119, 34, 93>>

\* ["workspace", "mode", "window", "shutdown"]
ArgsAll ==
    <<91, 34, 119, 111, 114, 107, 115, 112, 97, 99, 101, 34, 44, 32, 34, 109,
      111, 100, 101, 34, 44, 32, 34, 119, 105, 110, 100, 111, 119, 34, 44, 32,
      34, 115, 104, 117, 116, 100, 111, 119, 110, 34, 93>>

\* {"success":true}
DocSuccessTrue ==
    <<123, 34, 115, 117, 99, 99, 101, 115, 115, 34, 58, 116, 114, 117, 101, 125>>

\* {"success":false}
DocSuccessFalse ==
    <<123, 34, 115, 117, 99, 99, 101, 115, 115, 34, 58, 102, 97, 108, 115, 101,
      125>>

\* {}
DocEmptyObject ==
    <<123, 125>>

\* [{"id":4,"num":2,"name":"2","output":"o","focused":true,"urgent":false,"visible":true}]
DocWorkspaces ==
    <<91, 123, 34, 105, 100, 34, 58, 52, 44, 34, 110, 117, 109, 34, 58, 50, 44,
      34, 110, 97, 109, 101, 34, 58, 34, 50, 34, 44, 34, 111, 117, 116, 112,
      117, 116, 34, 58, 34, 111, 34, 44, 34, 102, 111, 99, 117, 115, 101, 100,
      34, 58, 116, 114, 117, 101, 44, 34, 117, 114, 103, 101, 110, 116, 34, 58,
      102, 97, 108, 115, 101, 44, 34, 118, 105, 115, 105, 98, 108, 101, 34, 58,
      116, 114, 117, 101, 125, 93>>

\* [{"id":4,"num":2,"name":"2","output":"o","focused":true,"urgent":false}]
DocWorkspacesNoVisible ==
    <<91, 123, 34, 105, 100, 34, 58, 52, 44, 34, 110, 117, 109, 34, 58, 50, 44,
      34, 110, 97, 109, 101, 34, 58, 34, 50, 34, 44, 34, 111, 117, 116, 112,
      117, 116, 34, 58, 34, 111, 34, 44, 34, 102, 111, 99, 117, 115, 101, 100,
      34, 58, 116, 114, 117, 101, 44, 34, 117, 114, 103, 101, 110, 116, 34, 58,
      102, 97, 108, 115, 101, 125, 93>>

\* {"change":"focus","container":{"id":7,"name":"vim","focused":true,"urgent":false}}
DocWindowNamed ==
    <<123, 34, 99, 104, 97, 110, 103, 101, 34, 58, 34, 102, 111, 99, 117, 115,
      34, 44, 34, 99, 111, 110, 116, 97, 105, 110, 101, 114, 34, 58, 123, 34,
      105, 100, 34, 58, 55, 44, 34, 110, 97, 109, 101, 34, 58, 34, 118, 105,
      109, 34, 44, 34, 102, 111, 99, 117, 115, 101, 100, 34, 58, 116, 114, 117,
      101, 44, 34, 117, 114, 103, 101, 110, 116, 34, 58, 102, 97, 108, 115,
      101, 125, 125>>

\* {"change":"focus","container":{"id":7,"name":null,"focused":true,"urgent":false}}
DocWindowUnnamed ==
    <<123, 34, 99, 104, 97, 110, 103, 101, 34, 58, 34, 102, 111, 99, 117, 115,
      34, 44, 34, 99, 111, 110, 116, 97, 105, 110, 101, 114, 34, 58, 123, 34,
      105, 100, 34, 58, 55, 44, 34, 110, 97, 109, 101, 34, 58, 110, 117, 108,
      108, 44, 34, 102, 111, 99, 117, 115, 101, 100, 34, 58, 116, 114, 117,
      101, 44, 34, 117, 114, 103, 101, 110, 116, 34, 58, 102, 97, 108, 115,
      101, 125, 125>>

\* {"change":"focus"}
DocWindowNoContainer ==
    <<123, 34, 99, 104, 97, 110, 103, 101, 34, 58, 34, 102, 111, 99, 117, 115,
      34, 125>>

\* {"change":"default","pango_markup":false}
DocModeDefault ==
    <<123, 34, 99, 104, 97, 110, 103, 101, 34, 58, 34, 100, 101, 102, 97, 117,
      108, 116, 34, 44, 34, 112, 97, 110, 103, 111, 95, 109, 97, 114, 107, 117,
      112, 34, 58, 102, 97, 108, 115, 101, 125>>

\* {"change":"resize","pango_markup":false}
DocModeResize ==
    <<123, 34, 99, 104, 97, 110, 103, 101, 34, 58, 34, 114, 101, 115, 105, 122,
      101, 34, 44, 34, 112, 97, 110, 103, 111, 95, 109, 97, 114, 107, 117, 112,
      34, 58, 102, 97, 108, 115, 101, 125>>

\* {"change":"resize"}
DocModeNoMarkup ==
    <<123, 34, 99, 104, 97, 110, 103, 101, 34, 58, 34, 114, 101, 115, 105, 122,
      101, 34, 125>>

\* {"change":"exit"}
DocChangeOnly ==
    <<123, 34, 99, 104, 97, 110, 103, 101, 34, 58, 34, 101, 120, 105, 116, 34,
      125>>

\* {"cha   (a text that is not JSON)
DocNotJson == <<123, 34, 99, 104, 97>>

\* ------------------------------------------------------------------------
\* Values
\* ------------------------------------------------------------------------

Min(a, b) == IF a <= b THEN a ELSE b

Take(s, n) == SubSeq(s, 1, n)

Drop(s, n) == SubSeq(s, n + 1, Len(s))

Reverse(s) == [i \in 1..Len(s) |-> s[Len(s) + 1 - i]]

\* Option<T>
None == <<>>

Some(x) == <<x>>

\* Result<T, E>
Ok(x) == [ok |-> TRUE, val |-> x]

Err(e) == [ok |-> FALSE, val |-> e]

\* an error value: its enum variant and the data the variant carries
E(variant, data) == [variant |-> variant, data |-> data]

\* n as u32: the digits of n mod 2^32
AsU32(n) ==
    << (n \div 16777216) % 256, (n \div 65536) % 256, (n \div 256) % 256,
       n % 256 >>

\* u32::to_ne_bytes
ToNeBytes(u, endian) == IF endian = "big" THEN u ELSE Reverse(u)

\* u32::from_ne_bytes
FromNeBytes(b, endian) == IF endian = "big" THEN b ELSE Reverse(b)

\* u32 as usize, for the values the model's integers hold
AsUsize(u) == u[1] * 16777216 + u[2] * 65536 + u[3] * 256 + u[4]

\* whether the u32 u, as usize, is at least the small number n
U32AtLeast(u, n) == IF u[1] >= 128 THEN TRUE ELSE AsUsize(u) >= n

\* min(u as usize - have, avail), where have + avail < 2^31
U32Remaining(u, have, avail) ==
    IF u[1] >= 128 THEN avail ELSE Min(AsUsize(u) - have, avail)

\* enum_from_primitive!: MessageType::from_u32
MessageTypeFromU32(u) ==
    IF \E k \in DOMAIN MessageTypeTag : MessageTypeTag[k] = u
    THEN Some(CHOOSE k \in DOMAIN MessageTypeTag : MessageTypeTag[k] = u)
    ELSE None

\* enum_from_primitive!: EventType::from_u32
EventTypeFromU32(u) ==
    IF \E k \in DOMAIN EventTypeTag : EventTypeTag[k] = u
    THEN Some(CHOOSE k \in DOMAIN EventTypeTag : EventTypeTag[k] = u)
    ELSE None

\* MessageType::as_bytes
\* (mutant: to_be_bytes, the network order)
MessageTypeAsBytes_BigEndian(k, endian) == MessageTypeTag[k]

MessageTypeAsBytes(k, endian) == ToNeBytes(MessageTypeTag[k], endian)

\* String::from_utf8_lossy, a string being the sequence of its characters:
\* an ASCII byte is its character, any other byte of the texts of this model
\* is an invalid sequence and becomes U+FFFD
FromUtf8Lossy(b) == [i \in 1..Len(b) |-> IF b[i] < 128 THEN b[i] ELSE 65533]

\* ------------------------------------------------------------------------
\* Frame codec.  A from_read call is suspended only inside a read of the
\* socket; between two reads its state is
\*   stage  "header" | "payload": the read_exact in progress
\*   acc    the bytes that read_exact has got so far
\*   len    payload_len (payload stage)
\*   type   the decoded kind (payload stage)
\* and the BufReader that from_read created holds no unread byte.
\* ------------------------------------------------------------------------

NewRead == [stage |-> "header", acc |-> <<>>, len |-> <<0, 0, 0, 0>>, type |-> "none"]

\* the step's outcome: done with a result (the bytes left in the dropped
\* BufReader are lost), or suspended in the next read
Done(res, lost) == [done |-> TRUE, res |-> res, rd |-> NewRead, lost |-> lost]

Pending(rd) == [done |-> FALSE, res |-> Ok(None), rd |-> rd, lost |-> <<>>]

\* Message::from_read, the checks on a complete header
\* (mutant: a tag that is no MessageType is taken as RunCommands)
MessageHeader_DefaultKind(header, endian) ==
    LET payload_len == FromNeBytes(SubSeq(header, 7, 10), endian)
        payload_type_int == FromNeBytes(SubSeq(header, 11, 14), endian)
        reply_type_opt == MessageTypeFromU32(payload_type_int)
    IN  IF SubSeq(header, 1, 6) # I3_MAGIC_STRING
        THEN Err(E("InvalidMagicString", FromUtf8Lossy(SubSeq(header, 1, 6))))
        ELSE IF reply_type_opt = None
             THEN Ok([len |-> payload_len, type |-> "RunCommands"])
             ELSE Ok([len |-> payload_len, type |-> reply_type_opt[1]])

MessageHeader(header, endian) ==
    LET payload_len == FromNeBytes(SubSeq(header, 7, 10), endian)
        payload_type_int == FromNeBytes(SubSeq(header, 11, 14), endian)
        reply_type_opt == MessageTypeFromU32(payload_type_int)
    IN  IF SubSeq(header, 1, 6) # I3_MAGIC_STRING
        THEN Err(E("InvalidMagicString", FromUtf8Lossy(SubSeq(header, 1, 6))))
        ELSE IF reply_type_opt = None
             THEN Err(E("InvalidType", payload_type_int))
             ELSE Ok([len |-> payload_len, type |-> reply_type_opt[1]])

\* Event::from_read, the checks on a complete header
\* (mutant: the tag is checked before the magic)
EventHeader_TagFirst(header, endian) ==
    LET payload_len == FromNeBytes(SubSeq(header, 7, 10), endian)
        payload_type_int == FromNeBytes(SubSeq(header, 11, 14), endian)
        reply_type_opt == EventTypeFromU32(payload_type_int)
    IN  IF reply_type_opt = None
        THEN Err(E("InvalidEventType", payload_type_int))
        ELSE IF SubSeq(header, 1, 6) # I3_MAGIC_STRING
             THEN Err(E("InvalidMagicString", FromUtf8Lossy(SubSeq(header, 1, 6))))
             ELSE Ok([len |-> payload_len, type |-> reply_type_opt[1]])

EventHeader(header, endian) ==
    LET payload_len == FromNeBytes(SubSeq(header, 7, 10), endian)
        payload_type_int == FromNeBytes(SubSeq(header, 11, 14), endian)
        reply_type_opt == EventTypeFromU32(payload_type_int)
    IN  IF SubSeq(header, 1, 6) # I3_MAGIC_STRING
        THEN Err(E("InvalidMagicString", FromUtf8Lossy(SubSeq(header, 1, 6))))
        ELSE IF reply_type_opt = None
             THEN Err(E("InvalidEventType", payload_type_int))
             ELSE Ok([len |-> payload_len, type |-> reply_type_opt[1]])

\* reader.read_exact(&mut buf) for the payload, continued with the bytes tmp
\* that the BufReader holds
ReadPayload(rd, tmp) ==
    LET n == U32Remaining(rd.len, Len(rd.acc), Len(tmp))
        buf == rd.acc \o Take(tmp, n)
    IN  IF ~U32AtLeast(rd.len, Len(buf) + 1)
        THEN Done(Ok([type |-> rd.type, payload |-> FromUtf8Lossy(buf)]),
                  Drop(tmp, n))
        ELSE Pending([rd EXCEPT !.acc = buf])

\* reader.read_exact(header), continued with the bytes tmp, then the checks
\* and the payload
ReadHeader(ctx, rd, tmp, endian) ==
    LET n == Min(HEADER_LENGTH - Len(rd.acc), Len(tmp))
        header == rd.acc \o Take(tmp, n)
        h == IF ctx = "event" THEN EventHeader(header, endian)
                              ELSE MessageHeader(header, endian)
    IN  IF Len(header) < HEADER_LENGTH
        THEN Pending([rd EXCEPT !.acc = header])
        ELSE IF ~h.ok
             THEN Done(h, Drop(tmp, n))
             ELSE ReadPayload([stage |-> "payload", acc |-> <<>>,
                               len |-> h.val.len, type |-> h.val.type],
                              Drop(tmp, n))

\* how many bytes one read of the socket returns when avail are there: an
\* empty BufReader asked for at least its capacity reads straight into the
\* caller's buffer, otherwise it fills its own buffer
ReadSize(rd, avail) ==
    IF rd.stage = "payload" /\ U32AtLeast(rd.len, Len(rd.acc) + DEFAULT_BUF_SIZE)
    THEN U32Remaining(rd.len, Len(rd.acc), avail)
    ELSE Min(avail, DEFAULT_BUF_SIZE)

\* from_read resumed by one read of the socket, which holds the bytes sock
\* (none: the peer has closed, the read returns 0 and read_exact fails)
\* (mutant: at the end of the stream the payload read so far is returned)
FromRead_Truncating(ctx, rd, sock, endian) ==
    LET tmp == Take(sock, ReadSize(rd, Len(sock)))
    IN  IF sock = <<>>
        THEN IF rd.stage = "payload"
             THEN Done(Ok([type |-> rd.type, payload |-> FromUtf8Lossy(rd.acc)]), <<>>)
             ELSE Done(Err(E("Io", <<>>)), <<>>)
        ELSE IF rd.stage = "header"
             THEN ReadHeader(ctx, rd, tmp, endian)
             ELSE ReadPayload(rd, tmp)

FromRead(ctx, rd, sock, endian) ==
    LET tmp == Take(sock, ReadSize(rd, Len(sock)))
    IN  IF sock = <<>>
        THEN Done(Err(E("Io", <<>>)), <<>>)
        ELSE IF rd.stage = "header"
             THEN ReadHeader(ctx, rd, tmp, endian)
             ELSE ReadPayload(rd, tmp)

\* Message::from_read
MessageFromRead(rd, sock, endian) == FromRead("reply", rd, sock, endian)

\* Event::from_read
EventFromRead(rd, sock, endian) == FromRead("event", rd, sock, endian)

\* the bytes Daemon::request writes, payload being an Option
RequestBytes(request_type, payload, endian) ==
    LET text == IF payload = None THEN <<>> ELSE payload[1]
        payload_len == AsU32(Len(text))
    IN  I3_MAGIC_STRING \o ToNeBytes(payload_len, endian)
            \o MessageTypeAsBytes(request_type, endian) \o text

\* ------------------------------------------------------------------------
\* Payload shapes.  serde_json::from_str on the texts of this model: the
\* documents above deserialize as written in their comments (unknown fields
\* are ignored, a missing Option field is None), every other text lacks a
\* required field of the target or is not of its shape.
\* ------------------------------------------------------------------------

\* serde_json::from_str::<SubscribeResponse>
SubscribeResponseFromStr(payload) ==
    CASE payload = DocSuccessTrue -> Ok([success |-> TRUE])
      [] payload = DocSuccessFalse -> Ok([success |-> FALSE])
      [] OTHER -> Err(E("Json", <<>>))

\* serde_json::from_str::<Vec<Workspace>>
WorkspacesFromStr(payload) ==
    CASE payload = DocWorkspaces ->
           Ok(<< [id |-> 4, num |-> 2, name |-> "2", output |-> "o",
                  focused |-> TRUE, urgent |-> FALSE, visible |-> Some(TRUE)] >>)
      [] payload = DocWorkspacesNoVisible ->
           Ok(<< [id |-> 4, num |-> 2, name |-> "2", output |-> "o",
                  focused |-> TRUE, urgent |-> FALSE, visible |-> None] >>)
      [] OTHER -> Err(E("Json", <<>>))

\* serde_json::from_str::<WindowEvent>
WindowEventFromStr(payload) ==
    CASE payload = DocWindowNamed ->
           Ok([change |-> "focus",
               container |-> [id |-> 7, name |-> Some("vim"), focused |-> TRUE,
                              urgent |-> FALSE, pid |-> None, app_id |-> None]])
      [] payload = DocWindowUnnamed ->
           Ok([change |-> "focus",
               container |-> [id |-> 7, name |-> None, focused |-> TRUE,
                              urgent |-> FALSE, pid |-> None, app_id |-> None]])
      [] OTHER -> Err(E("Json", <<>>))

\* serde_json::from_str::<ModeEvent>
ModeEventFromStr(payload) ==
    CASE payload = DocModeDefault -> Ok([change |-> "default", pango_markup |-> FALSE])
      [] payload = DocModeResize -> Ok([change |-> "resize", pango_markup |-> FALSE])
      [] OTHER -> Err(E("Json", <<>>))

\* WorkspaceEventChange::from_str
\* (mutant: the token is matched without regard to case)
WorkspaceEventChangeFromStr_IgnoreCase(s) ==
    CASE s \in {"init", "Init", "INIT"} -> Ok("Init")
      [] s = "empty" -> Ok("Empty")
      [] s \in {"focus", "Focus", "FOCUS"} -> Ok("Focus")
      [] s = "move" -> Ok("Move")
      [] s = "rename" -> Ok("Rename")
      [] s = "urgent" -> Ok("Urgent")
      [] s \in {"reload", "Reload"} -> Ok("Reload")
      [] OTHER -> Err(E("Invalid", s))

WorkspaceEventChangeFromStr(s) ==
    CASE s = "init" -> Ok("Init")
      [] s = "empty" -> Ok("Empty")
      [] s = "focus" -> Ok("Focus")
      [] s = "move" -> Ok("Move")
      [] s = "rename" -> Ok("Rename")
      [] s = "urgent" -> Ok("Urgent")
      [] s = "reload" -> Ok("Reload")
      [] OTHER -> Err(E("Invalid", s))

\* WorkspaceInfo::new
WorkspaceInfoNew(name, num) ==
    [name |-> name, num |-> num, focused |-> FALSE, urgent |-> FALSE,
     visible |-> FALSE, active |-> FALSE]

\* ------------------------------------------------------------------------
\* The eww sink.  A set_var call spawns the executable and waits for it:
\*   "ok"            it exits with success           Ok(true)
\*   "exit_failure"  it exits without success        Ok(false)
\*   "io_error"      the spawn or the wait fails     Err(EwwError::Io)
\* ------------------------------------------------------------------------

SetVarOutcomes == {"ok", "exit_failure", "io_error"}

\* Eww::set_var
SetVar(var, val, outcome) ==
    [call |-> [var |-> var, val |-> val, outcome |-> outcome],
     res |-> IF outcome = "io_error" THEN Err(E("Io", <<>>))
             ELSE Ok(outcome = "ok")]

\* ------------------------------------------------------------------------
\* Dispatchers.  A dispatcher's outcome: the set_var calls it made, in
\* order, and how it ended: a Result, or a panic.
\* ------------------------------------------------------------------------

Returned(res, calls) == [panic |-> FALSE, res |-> res, calls |-> calls]

Panicked(calls) == [panic |-> TRUE, res |-> Ok(None), calls |-> calls]

\* the HashMap collected from the (num, WorkspaceInfo) pairs, looked up at
\* i: the last pair with the key is the one kept
WorkspacesGet(infos, i) ==
    LET at == {j \in 1..Len(infos) : infos[j].num = i}
    IN  IF at = {} THEN None
        ELSE Some(infos[CHOOSE j \in at : \A k \in at : k <= j])

\* serde_json::to_string(&workspace_infos).  A JSON text is written here as
\* its document: an array is the sequence of its elements, an object the
\* sequence of its members <<key, value>> in the order they are written,
\* which for a derived Serialize is the order of the struct's fields.
WorkspaceInfoToJson(info) ==
    << <<"name", info.name>>, <<"num", info.num>>, <<"focused", info.focused>>,
       <<"urgent", info.urgent>>, <<"visible", info.visible>>,
       <<"active", info.active>> >>

WorkspaceInfosToJson(infos) == [i \in 1..Len(infos) |-> WorkspaceInfoToJson(infos[i])]

\* Daemon::handle_response, MessageType::GetWorkspaces, the listing being
\* deserialized
\* (mutant: a workspace without the visible flag is a Deserialize error)
HandleWorkspaces_VisibleRequired(listed, outcome) ==
    LET infos == [j \in 1..Len(listed) |->
                    [name |-> listed[j].name, num |-> listed[j].num,
                     focused |-> listed[j].focused, urgent |-> listed[j].urgent,
                     visible |-> listed[j].visible[1], active |-> TRUE]]
        workspace_infos ==
            [i \in 1..8 |->
                IF WorkspacesGet(infos, i) = None
                THEN WorkspaceInfoNew(ToString(i), i)
                ELSE WorkspacesGet(infos, i)[1]]
        set == SetVar("ws_info", WorkspaceInfosToJson(workspace_infos), outcome)
    IN  IF \E j \in 1..Len(listed) : listed[j].visible = None
        THEN Returned(Err(E("Deserialize", <<E("Json", <<>>)>>)), <<>>)
        ELSE IF ~set.res.ok
             THEN Returned(Err(E("Eww", <<set.res.val>>)), <<set.call>>)
             ELSE Returned(Ok(<<>>), <<set.call>>)

\* (mutant: the entries are numbered from 0)
HandleWorkspaces_ZeroBased(listed, outcome) ==
    LET infos == [j \in 1..Len(listed) |->
                    [name |-> listed[j].name, num |-> listed[j].num,
                     focused |-> listed[j].focused, urgent |-> listed[j].urgent,
                     visible |-> listed[j].visible[1], active |-> TRUE]]
        workspace_infos ==
            [i \in 1..8 |->
                IF WorkspacesGet(infos, i - 1) = None
                THEN WorkspaceInfoNew(ToString(i - 1), i - 1)
                ELSE WorkspacesGet(infos, i - 1)[1]]
        set == SetVar("ws_info", WorkspaceInfosToJson(workspace_infos), outcome)
    IN  IF \E j \in 1..Len(listed) : listed[j].visible = None
        THEN Panicked(<<>>)
        ELSE IF ~set.res.ok
             THEN Returned(Err(E("Eww", <<set.res.val>>)), <<set.call>>)
             ELSE Returned(Ok(<<>>), <<set.call>>)

HandleWorkspaces(listed, outcome) ==
    LET infos == [j \in 1..Len(listed) |->
                    [name |-> listed[j].name, num |-> listed[j].num,
                     focused |-> listed[j].focused, urgent |-> listed[j].urgent,
                     visible |-> listed[j].visible[1], active |-> TRUE]]
        workspace_infos ==
            [i \in 1..8 |->
                IF WorkspacesGet(infos, i) = None
                THEN WorkspaceInfoNew(ToString(i), i)
                ELSE WorkspacesGet(infos, i)[1]]
        set == SetVar("ws_info", WorkspaceInfosToJson(workspace_infos), outcome)
    IN  IF \E j \in 1..Len(listed) : listed[j].visible = None
        THEN Panicked(<<>>)
        ELSE IF ~set.res.ok
             THEN Returned(Err(E("Eww", <<set.res.val>>)), <<set.call>>)
             ELSE Returned(Ok(<<>>), <<set.call>>)

\* Daemon::handle_response, MessageType::GetWorkspaces
HandleGetWorkspaces(payload, outcome) ==
    LET parsed == WorkspacesFromStr(payload)
    IN  IF ~parsed.ok
        THEN Returned(Err(E("Deserialize", <<parsed.val>>)), <<>>)
        ELSE HandleWorkspaces(parsed.val, outcome)

\* Daemon::handle_response, MessageType::Subscribe
\* (mutant: a payload that does not deserialize counts as success = false)
HandleSubscribe_DefaultFalse(payload) ==
    LET response == SubscribeResponseFromStr(payload)
    IN  IF response.ok /\ response.val.success
        THEN Returned(Ok(<<>>), <<>>)
        ELSE Returned(Err(E("UnsuccessfulSubscription", <<>>)), <<>>)

HandleSubscribe(payload) ==
    LET response == SubscribeResponseFromStr(payload)
    IN  IF ~response.ok
        THEN Returned(Err(E("Deserialize", <<response.val>>)), <<>>)
        ELSE IF response.val.success
             THEN Returned(Ok(<<>>), <<>>)
             ELSE Returned(Err(E("UnsuccessfulSubscription", <<>>)), <<>>)

\* Daemon::handle_response
HandleResponse(payload_type, payload, outcome) ==
    CASE payload_type = "GetWorkspaces" -> HandleGetWorkspaces(payload, outcome)
      [] payload_type = "Subscribe" -> HandleSubscribe(payload)
      [] OTHER -> Returned(Ok(<<>>), <<>>)

\* Daemon::handle_event, EventType::Window
\* (mutant: a payload that does not deserialize clears the window title)
HandleWindow_ClearsOnError(payload, outcome) ==
    LET response == WindowEventFromStr(payload)
        name == IF response.ok /\ response.val.container.name # None
                THEN response.val.container.name[1] ELSE ""
        set == SetVar("active_window", name, outcome)
    IN  IF response.ok /\ response.val.container.name = None
        THEN Returned(Ok(FALSE), <<>>)
        ELSE IF ~set.res.ok
             THEN Returned(Err(E("Eww", <<set.res.val>>)), <<set.call>>)
             ELSE Returned(Ok(FALSE), <<set.call>>)

HandleWindow(payload, outcome) ==
    LET response == WindowEventFromStr(payload)
        set == SetVar("active_window", response.val.container.name[1], outcome)
    IN  IF ~response.ok
        THEN Returned(Err(E("DeserializePayload", <<response.val>>)), <<>>)
        ELSE IF response.val.container.name = None
             THEN Returned(Ok(FALSE), <<>>)
             ELSE IF ~set.res.ok
                  THEN Returned(Err(E("Eww", <<set.res.val>>)), <<set.call>>)
                  ELSE Returned(Ok(FALSE), <<set.call>>)

\* Daemon::handle_event, EventType::Mode
\* (mutant: an unsuccessful exit status of the binding_mode call is an
\* error like a failure to run it)
HandleMode_ExitStatusIsError(payload, outcome1, outcome2) ==
    LET parsed == ModeEventFromStr(payload)
        mode == parsed.val.change
        clear == SetVar("binding_active", FALSE, outcome1)
        set_mode == SetVar("binding_mode", mode, outcome1)
        set_active == SetVar("binding_active", TRUE, outcome2)
    IN  IF ~parsed.ok
        THEN Returned(Err(E("DeserializePayload", <<parsed.val>>)), <<>>)
        ELSE IF mode = "default"
             THEN IF ~clear.res.ok
                  THEN Returned(Err(E("Eww", <<clear.res.val>>)), <<clear.call>>)
                  ELSE Returned(Ok(FALSE), <<clear.call>>)
             ELSE IF outcome1 # "ok"
                  THEN Returned(Err(E("Eww", <<E("Io", <<>>)>>)), <<set_mode.call>>)
                  ELSE IF ~set_active.res.ok
                       THEN Returned(Err(E("Eww", <<set_active.res.val>>)),
                                     <<set_mode.call, set_active.call>>)
                       ELSE Returned(Ok(FALSE), <<set_mode.call, set_active.call>>)

\* (mutant: binding_active is set before binding_mode)
HandleMode_ActiveFirst(payload, outcome1, outcome2) ==
    LET parsed == ModeEventFromStr(payload)
        mode == parsed.val.change
        clear == SetVar("binding_active", FALSE, outcome1)
        set_active == SetVar("binding_active", TRUE, outcome1)
        set_mode == SetVar("binding_mode", mode, outcome2)
    IN  IF ~parsed.ok
        THEN Returned(Err(E("DeserializePayload", <<parsed.val>>)), <<>>)
        ELSE IF mode = "default"
             THEN IF ~clear.res.ok
                  THEN Returned(Err(E("Eww", <<clear.res.val>>)), <<clear.call>>)
                  ELSE Returned(Ok(FALSE), <<clear.call>>)
             ELSE IF ~set_active.res.ok
                  THEN Returned(Err(E("Eww", <<set_active.res.val>>)), <<set_active.call>>)
                  ELSE IF ~set_mode.res.ok
                       THEN Returned(Err(E("Eww", <<set_mode.res.val>>)),
                                     <<set_active.call, set_mode.call>>)
                       ELSE Returned(Ok(FALSE), <<set_active.call, set_mode.call>>)

HandleMode(payload, outcome1, outcome2) ==
    LET parsed == ModeEventFromStr(payload)
        mode == parsed.val.change
        clear == SetVar("binding_active", FALSE, outcome1)
        set_mode == SetVar("binding_mode", mode, outcome1)
        set_active == SetVar("binding_active", TRUE, outcome2)
    IN  IF ~parsed.ok
        THEN Returned(Err(E("DeserializePayload", <<parsed.val>>)), <<>>)
        ELSE IF mode = "default"
             THEN IF ~clear.res.ok
                  THEN Returned(Err(E("Eww", <<clear.res.val>>)), <<clear.call>>)
                  ELSE Returned(Ok(FALSE), <<clear.call>>)
             ELSE IF ~set_mode.res.ok
                  THEN Returned(Err(E("Eww", <<set_mode.res.val>>)), <<set_mode.call>>)
                  ELSE IF ~set_active.res.ok
                       THEN Returned(Err(E("Eww", <<set_active.res.val>>)),
                                     <<set_mode.call, set_active.call>>)
                       ELSE Returned(Ok(FALSE), <<set_mode.call, set_active.call>>)

\* Daemon::handle_event, every kind but Workspace (which issues a request)
\* (mutant: the last arm deserializes the payload before it drops it)
HandleEvent_ParsesPayload(event_type, payload, outcome1, outcome2) ==
    CASE event_type = "Window" -> HandleWindow(payload, outcome1)
      [] event_type = "Shutdown" -> Returned(Ok(TRUE), <<>>)
      [] event_type = "Mode" -> HandleMode(payload, outcome1, outcome2)
      [] OTHER -> IF payload = DocNotJson
                  THEN Returned(Err(E("DeserializePayload", <<E("Json", <<>>)>>)), <<>>)
                  ELSE Returned(Ok(FALSE), <<>>)

\* (mutant: no arm for Shutdown)
HandleEvent_NoShutdown(event_type, payload, outcome1, outcome2) ==
    CASE event_type = "Window" -> HandleWindow(payload, outcome1)
      [] event_type = "Mode" -> HandleMode(payload, outcome1, outcome2)
      [] OTHER -> Returned(Ok(FALSE), <<>>)

HandleEvent(event_type, payload, outcome1, outcome2) ==
    CASE event_type = "Window" -> HandleWindow(payload, outcome1)
      [] event_type = "Shutdown" -> Returned(Ok(TRUE), <<>>)
      [] event_type = "Mode" -> HandleMode(payload, outcome1, outcome2)
      [] OTHER -> Returned(Ok(FALSE), <<>>)

\* ------------------------------------------------------------------------
\* State
\* ------------------------------------------------------------------------

VARIABLES
    endian,      \* the host's byte order, "little" or "big"
    events,      \* the argument of subscribe_event_loop, until the request
                 \* that borrows it returns
    pc,          \* where subscribe_event_loop is
    rd,          \* the from_read call in progress
    result,      \* what subscribe_event_loop returned
    out,         \* the requests written that the peer has not read, oldest first
    sock,        \* the bytes the peer sent that the session has not read
    closed,      \* the peer has closed the connection
    peerRest,    \* the rest of the frame the peer is sending
    peer,        \* the peer: whether it accepted a subscription, kept to the protocol
    sent,        \* the frames the peer sent, oldest first
    hist,        \* what the session and the sink were asked to do, in order
    call         \* a function of the program applied on its own: its name,
                 \* its argument and, once it has returned, its result

vars == <<endian, events, pc, rd, result, out, sock, closed, peerRest, peer,
          sent, hist, call>>

\* an entry of hist
H(op, kind, val) == [op |-> op, kind |-> kind, val |-> val]

\* the set_var calls as entries of hist
Calls(calls) ==
    [i \in 1..Len(calls) |->
        H("set_var", calls[i].var, <<calls[i].val, calls[i].outcome>>)]

Reading == {"sub_reply", "ws_reply", "read_event"}

Init ==
    /\ endian \in {"little", "big"}
    /\ events \in {ArgsWindow, ArgsAll}
    /\ pc = "connected"
    /\ rd = NewRead
    /\ result = None
    /\ out = <<>>
    /\ sock = <<>>
    /\ closed = FALSE
    /\ peerRest = <<>>
    /\ peer = [subscribed |-> FALSE, conformant |-> TRUE]
    /\ sent = <<>>
    /\ hist = <<>>
    /\ call = None

\* ------------------------------------------------------------------------
\* The daemon
\* ------------------------------------------------------------------------

\* where a step of subscribe_event_loop leaves it
Goto(to, res, written, log) ==
    [pc |-> to, result |-> res, out |-> written, log |-> log]

\* Daemon::request up to the read of the reply: write_all fails when the
\* peer has closed the connection
RequestWrite(request_type, payload) ==
    IF closed
    THEN [ok |-> FALSE, err |-> E("Io", <<>>), out |-> out,
          log |-> <<H("write", request_type, FALSE),
                    H("request", request_type, Err(E("Io", <<>>)))>>]
    ELSE [ok |-> TRUE, err |-> None,
          out |-> Append(out, RequestBytes(request_type, payload, endian)),
          log |-> <<H("write", request_type, TRUE)>>]

\* Daemon::request: the request is written, the reply is read next
\* (mutant: the request is written by a task of its own, handle_event
\* returns without its reply)
RequestSent_Detached(reply_pc, w, log) ==
    IF reply_pc = "ws_reply"
    THEN Goto("read_event", None, w.out,
              log \o w.log \o <<H("handle_event", "Workspace", Ok(FALSE))>>)
    ELSE Goto(reply_pc, None, w.out, log \o w.log)

\* (mutant: request returns after the write, the reply is left to the loop)
RequestSent_ReplyNotRead(reply_pc, w, log) == Goto("read_event", None, w.out, log \o w.log)

RequestSent(reply_pc, w, log) == Goto(reply_pc, None, w.out, log \o w.log)

\* subscribe_event_loop: the Subscribe request failed
\* (mutant: the failure is logged and the loop is entered)
SubscribeFailed_Ignored(e, log) == Goto("read_event", None, out, log)

SubscribeFailed(e, log) == Goto("terminated", Some(Err(E("Subscription", <<e>>))), out, log)

\* subscribe_event_loop: read_event failed
\* (mutant: the failure is logged and the loop reads again)
ReadFailed_Retry(e, log) == Goto("read_event", None, out, log)

ReadFailed(e, log) == Goto("terminated", Some(Err(E("Read", <<e>>))), out, log)

\* subscribe_event_loop: handle_event returned
\* (mutant: handle_event's error is propagated with ?)
EventHandled_Propagated(event_type, handled, log) ==
    LET entry == <<H("handle_event", event_type, handled)>>
    IN  IF ~handled.ok
        THEN Goto("terminated", Some(Err(E("Event", <<handled.val>>))), out, log \o entry)
        ELSE IF handled.val
             THEN Goto("terminated", Some(Ok(<<>>)), out, log \o entry)
             ELSE Goto("read_event", None, out, log \o entry)

EventHandled(event_type, handled, log) ==
    LET entry == <<H("handle_event", event_type, handled)>>
    IN  IF ~handled.ok
        THEN Goto("read_event", None, out, log \o entry)
        ELSE IF handled.val
             THEN Goto("terminated", Some(Ok(<<>>)), out, log \o entry)
             ELSE Goto("read_event", None, out, log \o entry)

\* handle_event, EventType::Workspace: the GetWorkspaces request failed
\* (mutant: the failure ends the loop)
WorkspaceFailed_Fatal(e, log) ==
    Goto("terminated", Some(Err(E("Event", <<E("Request", <<e>>)>>))), out,
         log \o <<H("handle_event", "Workspace", Err(E("Request", <<e>>)))>>)

WorkspaceFailed(e, log) == EventHandled("Workspace", Err(E("Request", <<e>>)), log)

\* Daemon::request from its read of the reply on, and its caller's next step
RequestReply(caller, request_type, read, outcome) ==
    LET handled == HandleResponse(read.val.type, read.val.payload, outcome)
        res == IF ~read.ok THEN Err(E("Read", <<read.val>>)) ELSE handled.res
        log == <<H("read_response", request_type, read)>>
               \o (IF read.ok THEN Calls(handled.calls) ELSE <<>>)
    IN  IF read.ok /\ handled.panic
        THEN Goto("panicked", None, out, log)
        ELSE LET done == log \o <<H("request", request_type, res)>>
             IN  IF caller = "sub_reply"
                 THEN IF res.ok THEN Goto("read_event", None, out, done)
                                ELSE SubscribeFailed(res.val, done)
                 ELSE IF res.ok THEN EventHandled("Workspace", Ok(FALSE), done)
                                ELSE WorkspaceFailed(res.val, done)

\* subscribe_event_loop, one iteration from the return of read_event on
Dispatch(read, outcome1, outcome2) ==
    LET event == read.val
        handled == HandleEvent(event.type, event.payload, outcome1, outcome2)
        log == <<H("read_event", "", read)>>
    IN  IF ~read.ok
        THEN ReadFailed(read.val, log)
        ELSE IF event.type = "Workspace"
             THEN LET w == RequestWrite("GetWorkspaces", None)
                  IN  IF w.ok THEN RequestSent("ws_reply", w, log)
                              ELSE WorkspaceFailed(w.err, log \o w.log)
             ELSE IF handled.panic
                  THEN Goto("panicked", None, out, log \o Calls(handled.calls))
                  ELSE EventHandled(event.type, handled.res, log \o Calls(handled.calls))

\* the daemon's step takes it to g
Step(g) ==
    /\ pc' = g.pc
    /\ result' = g.result
    /\ out' = g.out
    /\ hist' = hist \o g.log

\* subscribe_event_loop: self.request(MessageType::Subscribe, Some(events))
Subscribe ==
    /\ pc = "connected"
    /\ LET w == RequestWrite("Subscribe", Some(events))
       IN  IF w.ok THEN Step(RequestSent("sub_reply", w, <<>>))
                   ELSE Step(SubscribeFailed(w.err, w.log))
    /\ rd' = NewRead
    /\ events' = IF closed THEN <<>> ELSE events
    /\ UNCHANGED <<endian, sock, closed, peerRest, peer, sent, call>>

\* the daemon's step after the read of the socket returned, the sink
\* answering its calls with outcome1 and outcome2
AfterRecv(outcome1, outcome2) ==
    LET n == ReadSize(rd, Len(sock))
        read == IF pc = "read_event" THEN EventFromRead(rd, sock, endian)
                                     ELSE MessageFromRead(rd, sock, endian)
        recv == H("recv", pc, <<n, Len(read.lost)>>)
        g == CASE pc = "read_event" -> Dispatch(read.res, outcome1, outcome2)
               [] pc = "sub_reply" -> RequestReply(pc, "Subscribe", read.res, outcome1)
               [] pc = "ws_reply" -> RequestReply(pc, "GetWorkspaces", read.res, outcome1)
    IN  IF read.done
        THEN [g EXCEPT !.log = <<recv>> \o @]
        ELSE Goto(pc, None, out, <<recv>>)

\* the outcomes the sink can give to the calls of the step: as many as the
\* step makes calls when none fails
SinkOutcomes ==
    LET calls == SelectSeq(AfterRecv("ok", "ok").log, LAMBDA h : h.op = "set_var")
    IN  IF Len(calls) = 0 THEN {<<"ok", "ok">>}
        ELSE IF Len(calls) = 1 THEN SetVarOutcomes \X {"ok"}
             ELSE SetVarOutcomes \X SetVarOutcomes

\* one read of the socket by the from_read in progress, and what follows it
\* up to the next read of the socket
Recv ==
    /\ pc \in Reading
    /\ sock # <<>> \/ closed
    /\ \E outcome \in SinkOutcomes : Step(AfterRecv(outcome[1], outcome[2]))
    /\ sock' = Drop(sock, ReadSize(rd, Len(sock)))
    /\ rd' = IF pc = "read_event" THEN EventFromRead(rd, sock, endian).rd
                                  ELSE MessageFromRead(rd, sock, endian).rd
    /\ events' = IF pc' = "sub_reply" THEN events ELSE <<>>
    /\ UNCHANGED <<endian, closed, peerRest, peer, sent, call>>

\* ------------------------------------------------------------------------
\* The peer: the window manager at the other end of the socket.  It answers
\* a request with one frame carrying the request's tag, pushes event frames
\* once it has accepted a subscription, and may also break the protocol
\* (peer.conformant records that it has not).
\* ------------------------------------------------------------------------

\* a frame on the wire
Frame(tag, payload) ==
    I3_MAGIC_STRING \o ToNeBytes(AsU32(Len(payload)), endian)
        \o ToNeBytes(tag, endian) \o payload

\* the kind of the oldest request the peer has not read
PendingRequest ==
    MessageTypeFromU32(FromNeBytes(SubSeq(Head(out), 11, 14), endian))[1]

\* the reply payloads the peer may send to a request, and the ones the
\* protocol allows
ReplyDocs(kind) ==
    IF kind = "Subscribe"
    THEN {DocSuccessTrue, DocSuccessFalse, DocEmptyObject}
    ELSE {DocWorkspaces, DocWorkspacesNoVisible, DocEmptyObject}

ProperReplyDocs(kind) ==
    IF kind = "Subscribe" THEN {DocSuccessTrue, DocSuccessFalse} ELSE {DocWorkspaces}

\* the events the peer may push, and the ones the protocol allows
EventFrames ==
    { [type |-> "Workspace", payload |-> DocChangeOnly],
      [type |-> "Window", payload |-> DocWindowNamed],
      [type |-> "Window", payload |-> DocWindowUnnamed],
      [type |-> "Window", payload |-> DocWindowNoContainer],
      [type |-> "Mode", payload |-> DocModeDefault],
      [type |-> "Mode", payload |-> DocModeResize],
      [type |-> "Mode", payload |-> DocModeNoMarkup],
      [type |-> "Shutdown", payload |-> DocChangeOnly],
      [type |-> "Tick", payload |-> DocEmptyObject] }

ProperEventFrames ==
    {e \in EventFrames : e.payload \notin {DocWindowNoContainer, DocModeNoMarkup}}

\* frames that are no frames of the protocol: a wrong magic ("i3-msg"), and
\* a tag (0x8000_0001) that is neither a request's nor a known event's
JunkFrames ==
    { [type |-> "BadMagic",
       bytes |-> <<105, 51, 45, 109, 115, 103>>
                 \o ToNeBytes(AsU32(Len(DocEmptyObject)), endian)
                 \o ToNeBytes(EventTypeTag.Tick, endian) \o DocEmptyObject],
      [type |-> "BadTag", bytes |-> Frame(<<128, 0, 0, 1>>, DocEmptyObject)] }

\* the peer may write a frame whole; a Tick event it may also write in two
\* pieces, cut inside the header or inside the payload
SplitPoints(bytes, record) ==
    {Len(bytes)} \cup (IF record.type = "Tick" THEN {6, HEADER_LENGTH + 1} ELSE {})

\* the peer sends the frame bytes
Send(bytes, record, peer1, unread) ==
    /\ pc \notin {"terminated", "panicked"}
    /\ ~closed
    /\ peerRest = <<>>
    /\ Len(sent) < MaxFrames
    /\ \E k \in SplitPoints(bytes, record) :
         /\ sock' = sock \o Take(bytes, k)
         /\ peerRest' = Drop(bytes, k)
    /\ peer' = peer1
    /\ out' = unread
    /\ sent' = Append(sent, record)
    /\ UNCHANGED <<endian, events, pc, rd, result, closed, hist, call>>

\* the peer reads the oldest request and answers it
PeerReply ==
    /\ out # <<>>
    /\ \E doc \in ReplyDocs(PendingRequest) :
         Send(Frame(MessageTypeTag[PendingRequest], doc),
              [ctx |-> "reply", type |-> PendingRequest, payload |-> doc],
              [peer EXCEPT
                 !.subscribed = @ \/ (PendingRequest = "Subscribe" /\ doc = DocSuccessTrue),
                 !.conformant = @ /\ doc \in ProperReplyDocs(PendingRequest)],
              Tail(out))

\* the peer pushes an event
PeerEvent ==
    /\ peer.subscribed
    /\ \E e \in EventFrames :
        Send(Frame(EventTypeTag[e.type], e.payload),
             [ctx |-> "event", type |-> e.type, payload |-> e.payload],
             [peer EXCEPT !.conformant = @ /\ e \in ProperEventFrames], out)

\* the peer sends what is no frame of the protocol
PeerJunk ==
    \E j \in JunkFrames :
        Send(j.bytes, [ctx |-> "junk", type |-> j.type, payload |-> <<>>],
             [peer EXCEPT !.conformant = FALSE], out)

\* the rest of a frame sent in two pieces arrives
PeerFlush ==
    /\ pc \notin {"terminated", "panicked"}
    /\ ~closed
    /\ peerRest # <<>>
    /\ sock' = sock \o peerRest
    /\ peerRest' = <<>>
    /\ UNCHANGED <<endian, events, pc, rd, result, out, closed, peer, sent, hist, call>>

\* the peer closes the connection (in the middle of a frame: the rest of
\* the frame never arrives)
PeerClose ==
    /\ pc \notin {"terminated", "panicked"}
    /\ ~closed
    /\ closed' = TRUE
    /\ peerRest' = <<>>
    /\ peer' = [peer EXCEPT !.conformant = @ /\ peerRest = <<>>]
    /\ UNCHANGED <<endian, events, pc, rd, result, out, sock, sent, hist, call>>

Next ==
    \/ Subscribe
    \/ Recv
    \/ PeerReply
    \/ PeerEvent
    \/ PeerJunk
    \/ PeerFlush
    \/ PeerClose

Spec == Init /\ [][Next]_vars

\* ------------------------------------------------------------------------
\* Functions of the program applied on their own, to arguments drawn from
\* bounded sets: call holds the function's name and argument, and its result
\* once the function has returned.  The daemon and the peer do not move.
\* ------------------------------------------------------------------------

Applying(fn, arg) == Some([fn |-> fn, arg |-> arg, ret |-> None])

\* the call of fn is to be made
IsApplying(fn) == call # None /\ call[1].fn = fn /\ call[1].ret = None

\* the call of fn has returned
IsApplied(fn) == call # None /\ call[1].fn = fn /\ call[1].ret # None

Return(ret) == call' = Some([call[1] EXCEPT !.ret = Some(ret)])

Unmoved == UNCHANGED <<endian, events, pc, rd, result, out, sock, closed, peerRest,
                       peer, sent, hist>>

\* the workspaces of a listing: a number inside 1..8 or outside (0 and
\* MaxNum), with a name and flags, one of them without the visible flag
ListedWorkspaces ==
    { [id |-> 4, num |-> n, name |-> v.name, output |-> "o", focused |-> v.focused,
       urgent |-> v.urgent, visible |-> v.visible] :
      n \in {0, 1, 2, 5, 8, MaxNum},
      v \in { [name |-> "web", focused |-> TRUE, urgent |-> FALSE, visible |-> Some(TRUE)],
              [name |-> "mail", focused |-> FALSE, urgent |-> TRUE, visible |-> Some(FALSE)],
              [name |-> "term", focused |-> FALSE, urgent |-> FALSE, visible |-> None] } }

\* the listings of up to MaxListing workspaces, the empty one included
Listings == UNION { [1..k -> ListedWorkspaces] : k \in 0..MaxListing }

HandleWorkspacesArgs ==
    { [listed |-> l, outcome |-> o] : l \in Listings, o \in SetVarOutcomes }

ApplyHandleWorkspaces ==
    /\ IsApplying("HandleWorkspaces")
    /\ Return(HandleWorkspaces(call[1].arg.listed, call[1].arg.outcome))
    /\ Unmoved

\* what the socket holds when from_read is called: a header (magic, length
\* and tag, the two as u32) and the bytes behind it.  The magics: i3-ipc,
\* i3-msg, and i3-ip with a byte that is no UTF-8; the lengths 0, 2 and
\* 2^32 - 1; the tags a, 0, 0, d and d, 0, 0, a with d up to MaxTagByte or
\* next to the tags of the protocol above it.
HeaderMagics ==
    { I3_MAGIC_STRING, <<105, 51, 45, 109, 115, 103>>, <<105, 51, 45, 105, 112, 255>> }

HeaderLengths == { <<0, 0, 0, 0>>, <<0, 0, 0, 2>>, <<255, 255, 255, 255>> }

HeaderTags ==
    UNION { { <<a, 0, 0, d>>, <<d, 0, 0, a>> } :
            a \in {0, 128, 255}, d \in (0..MaxTagByte) \cup {19, 20, 21, 22, 99, 100, 101, 102} }

FromReadArgs ==
    { [ctx |-> ctx, magic |-> m, len |-> l, tag |-> t, rest |-> r] :
      ctx \in {"reply", "event"}, m \in HeaderMagics, l \in HeaderLengths,
      t \in HeaderTags, r \in {<<>>, DocEmptyObject} }

\* the bytes of such an argument on a host of the byte order endian
WireBytes(a, order) ==
    a.magic \o ToNeBytes(a.len, order) \o ToNeBytes(a.tag, order) \o a.rest

\* Message::from_read, Event::from_read: the call up to its return or its
\* second read of the socket
ApplyFromRead ==
    /\ IsApplying("FromRead")
    /\ Return(FromRead(call[1].arg.ctx, NewRead, WireBytes(call[1].arg, endian), endian))
    /\ Unmoved

\* the requests Daemon::request may be asked to write: any kind, without a
\* payload or with one of up to MaxPayload bytes
RequestArgs ==
    { [request_type |-> k, payload |-> p] :
      k \in DOMAIN MessageTypeTag,
      p \in { None, Some(<<>>), Some(ArgsWindow), Some(ArgsAll),
              Some([i \in 1..MaxPayload |-> 97]) } }

\* Daemon::request: the message built
ApplyRequestBytes ==
    /\ IsApplying("RequestBytes")
    /\ Return(RequestBytes(call[1].arg.request_type, call[1].arg.payload, endian))
    /\ Unmoved

\* the texts given to WorkspaceEventChange::from_str: the tokens of the
\* protocol, the same in other cases, with a blank or a letter more or less,
\* other words, and the empty text
ChangeTexts ==
    { "init", "empty", "focus", "move", "rename", "urgent", "reload",
      "Init", "INIT", "Focus", "FOCUS", "Reload", "", " init", "init ", "mov",
      "moved", "reloaded", "exit", "default" }

ApplyChangeFromStr ==
    /\ IsApplying("WorkspaceEventChangeFromStr")
    /\ Return(WorkspaceEventChangeFromStr(call[1].arg))
    /\ Unmoved

\* the replies Daemon::request may read after it wrote a request of the
\* kind request_type: a frame of any MessageType, with one of the payloads
RequestReplyArgs ==
    { [caller |-> r.caller, request_type |-> r.request_type,
       read |-> Ok([type |-> t, payload |-> doc]), outcome |-> o] :
      r \in { [caller |-> "sub_reply", request_type |-> "Subscribe"],
              [caller |-> "ws_reply", request_type |-> "GetWorkspaces"] },
      t \in DOMAIN MessageTypeTag,
      doc \in {DocSuccessTrue, DocSuccessFalse, DocWorkspaces, DocEmptyObject},
      o \in SetVarOutcomes }

\* Daemon::request from the return of read_response on
ApplyRequestReply ==
    /\ IsApplying("RequestReply")
    /\ Return(RequestReply(call[1].arg.caller, call[1].arg.request_type,
                           call[1].arg.read, call[1].arg.outcome))
    /\ Unmoved

\* the events read_event may return to subscribe_event_loop: every kind,
\* with a payload that fits the kind or another, or that is not JSON, and
\* the outcomes of the sink calls the handling makes
DispatchArgs ==
    { [read |-> Ok([type |-> t, payload |-> doc]), outcome1 |-> o1, outcome2 |-> o2] :
      t \in DOMAIN EventTypeTag,
      doc \in {DocEmptyObject, DocNotJson, DocWindowNamed, DocWindowUnnamed,
               DocModeDefault, DocModeResize},
      o1 \in SetVarOutcomes, o2 \in SetVarOutcomes }

\* subscribe_event_loop, one iteration from the return of read_event on
ApplyDispatch ==
    /\ IsApplying("Dispatch")
    /\ Return(Dispatch(call[1].arg.read, call[1].arg.outcome1, call[1].arg.outcome2))
    /\ Unmoved

Applications ==
    { Applying("HandleWorkspaces", a) : a \in HandleWorkspacesArgs }
        \cup { Applying("FromRead", a) : a \in FromReadArgs }
        \cup { Applying("RequestBytes", a) : a \in RequestArgs }
        \cup { Applying("WorkspaceEventChangeFromStr", a) : a \in ChangeTexts }
        \cup { Applying("RequestReply", a) : a \in RequestReplyArgs }
        \cup { Applying("Dispatch", a) : a \in DispatchArgs }

CallInit ==
    /\ endian \in {"little", "big"}
    /\ events = <<>>
    /\ pc = "connected"
    /\ rd = NewRead
    /\ result = None
    /\ out = <<>>
    /\ sock = <<>>
    /\ closed = FALSE
    /\ peerRest = <<>>
    /\ peer = [subscribed |-> FALSE, conformant |-> TRUE]
    /\ sent = <<>>
    /\ hist = <<>>
    /\ call \in Applications

CallNext ==
    \/ ApplyHandleWorkspaces
    \/ ApplyFromRead
    \/ ApplyRequestBytes
    \/ ApplyChangeFromStr
    \/ ApplyRequestReply
    \/ ApplyDispatch

CallSpec == CallInit /\ [][CallNext]_vars

\* ------------------------------------------------------------------------
\* Reading hist
\* ------------------------------------------------------------------------

Last(s) == s[Len(s)]

\* read_event returned at entry i: an event, or a failure
IsEvent(i) == hist[i].op = "read_event" /\ hist[i].val.ok

IsEventOf(i, type) == IsEvent(i) /\ hist[i].val.val.type = type

IsReadFailure(i) == hist[i].op = "read_event" /\ ~hist[i].val.ok

\* the session was read or written at entry i
IsSessionUse(i) == hist[i].op \in {"recv", "write"}

\* the loop is in its next iteration's read_event: nothing came after entry
\* i yet and the loop waits in read_event, or the next thing after it is a
\* read of the socket by read_event
NextIterationAfter(i) ==
    IF i = Len(hist)
    THEN pc = "read_event" /\ result = None
    ELSE hist[i + 1].op = "recv" /\ hist[i + 1].kind = "read_event"

\* ------------------------------------------------------------------------
\* Claims
\* ------------------------------------------------------------------------

\* C1: a decode failure of read_event (I/O error or short read, invalid
\* magic, invalid event tag) ends the loop at once with that failure as the
\* result of subscribe_event_loop: nothing is dispatched, no sink call and no
\* request is made, and the session is neither read nor written again.
C1_ReadFailureIsFatal ==
    \A i \in 1..Len(hist) :
        IsReadFailure(i) =>
            /\ hist[i].val.val.variant \in {"Io", "InvalidMagicString", "InvalidEventType"}
            /\ i = Len(hist)
            /\ pc = "terminated"
            /\ result = Some(Err(E("Read", <<hist[i].val.val>>)))

\* C1 witness: read_event failed on an invalid magic after an event had
\* been dispatched
C1_Witness ==
    /\ Len(hist) > 1
    /\ IsReadFailure(Len(hist))
    /\ Last(hist).val.val.variant = "InvalidMagicString"
    /\ \E i \in 1..Len(hist) : hist[i].op = "handle_event"

\* C2: a Window event whose payload does not deserialize does not end the
\* loop: handle_event's error is caught, no sink call is made for the event,
\* and the loop goes on to the next read_event, whose event is dispatched.
C2_MalformedWindowIsSkipped ==
    \A i \in 1..Len(hist) :
        /\ (IsEventOf(i, "Window") /\ ~WindowEventFromStr(hist[i].val.val.payload).ok) =>
              /\ i < Len(hist)
              /\ hist[i + 1].op = "handle_event"
              /\ hist[i + 1].kind = "Window"
              /\ ~hist[i + 1].val.ok
              /\ hist[i + 1].val.val.variant = "DeserializePayload"
              /\ NextIterationAfter(i + 1)
        /\ (IsEvent(i) /\ \E j \in 1..(i - 1) : hist[j].op = "handle_event" /\ ~hist[j].val.ok) =>
              /\ i < Len(hist)
              /\ hist[i + 1].op \in {"handle_event", "set_var", "write"}
              /\ hist[i + 1].op = "handle_event" => hist[i + 1].kind = hist[i].val.val.type
              /\ hist[i + 1].op = "write" => hist[i].val.val.type = "Workspace"
              /\ hist[i + 1].op = "set_var" => hist[i].val.val.type \in {"Window", "Mode"}

\* C2 witness: after a malformed Window event the next event, a well-formed
\* Window event, was read and its name forwarded to the sink
C2_Witness ==
    \E i \in 1..Len(hist) :
        /\ IsEventOf(i, "Window")
        /\ hist[i].val.val.payload = DocWindowNoContainer
        /\ \E j \in (i + 1)..(Len(hist) - 1) :
              /\ IsEventOf(j, "Window")
              /\ hist[j + 1].op = "set_var"
              /\ hist[j + 1].kind = "active_window"

\* C3: a Shutdown event, wherever it comes in the sequence of events, makes
\* subscribe_event_loop return success: no sink call and no request is made
\* for it and nothing is read afterwards.
C3_ShutdownEndsCleanly ==
    \A i \in 1..Len(hist) :
        IsEventOf(i, "Shutdown") =>
            /\ Len(hist) = i + 1
            /\ hist[i + 1] = H("handle_event", "Shutdown", Ok(TRUE))
            /\ pc = "terminated"
            /\ result = Some(Ok(<<>>))

\* C3 witness: Shutdown was the very first event, and the peer had sent
\* another frame after it
C3_Witness ==
    /\ pc = "terminated"
    /\ result = Some(Ok(<<>>))
    /\ Cardinality({i \in 1..Len(hist) : hist[i].op = "read_event"}) = 1
    /\ Len(sent) = 3
    /\ sent[2].type = "Shutdown"

\* C4: subscribe_event_loop issues exactly one Subscribe request, with the
\* caller's event list as its payload, before any read_event; when that
\* request fails (write error, reply decode failure, malformed reply JSON,
\* success=false) the loop is not entered: read_event is never called and
\* the failure is the result.
C4_SubscribeFirstAndFatal ==
    /\ pc = "connected" => hist = <<>>
    /\ pc # "connected" =>
          /\ hist[1].op = "write"
          /\ hist[1].kind = "Subscribe"
          /\ {i \in 1..Len(hist) : hist[i].op = "write" /\ hist[i].kind = "Subscribe"} = {1}
    /\ (pc = "sub_reply" /\ sent = <<>>) =>
          /\ out = << I3_MAGIC_STRING \o ToNeBytes(AsU32(Len(events)), endian)
                        \o ToNeBytes(MessageTypeTag.Subscribe, endian) \o events >>
          /\ events \in {ArgsWindow, ArgsAll}
    /\ \A i \in 1..Len(hist) :
          /\ (hist[i].op = "request" /\ hist[i].kind = "Subscribe" /\ ~hist[i].val.ok) =>
                /\ i = Len(hist)
                /\ pc = "terminated"
                /\ result = Some(Err(E("Subscription", <<hist[i].val.val>>)))
                /\ hist[i].val.val.variant \in
                      {"Io", "Read", "Deserialize", "UnsuccessfulSubscription"}
          /\ (hist[i].op = "read_event" \/ (hist[i].op = "recv" /\ hist[i].kind = "read_event")) =>
                \E j \in 1..(i - 1) :
                    hist[j].op = "request" /\ hist[j].kind = "Subscribe" /\ hist[j].val.ok

\* C4 witness: the peer refused the subscription and subscribe_event_loop
\* returned that error
C4_Witness ==
    /\ pc = "terminated"
    /\ result = Some(Err(E("Subscription", <<E("UnsuccessfulSubscription", <<>>)>>)))

\* the events the peer pushed, and the events read_event returned, in order
PushedEvents ==
    LET pushed == SelectSeq(sent, LAMBDA f : f.ctx = "event")
    IN  [i \in 1..Len(pushed) |-> [type |-> pushed[i].type, payload |-> pushed[i].payload]]

ReturnedEvents ==
    LET returned == SelectSeq(hist, LAMBDA h : h.op = "read_event" /\ h.val.ok)
    IN  [i \in 1..Len(returned) |-> returned[i].val.val]

IsPrefix(s, t) == Len(s) <= Len(t) /\ \A i \in 1..Len(s) : s[i] = t[i]

\* C5: with a peer that keeps to the protocol and pushes events at any time
\* after the subscription, also between a request and its reply, the frame a
\* request decodes after its write is that request's reply and never an event
\* frame, and the events read_event returns are the events pushed, in the
\* order sent, none lost and none decoded as a reply.
C5_RepliesAndEventsKeptApart ==
    peer.conformant =>
        /\ \A i \in 1..Len(hist) :
              hist[i].op = "read_response" =>
                  \/ hist[i].val.ok /\ hist[i].val.val.type = hist[i].kind
                  \/ ~hist[i].val.ok /\ hist[i].val.val.variant = "Io"
        /\ \A i \in 1..Len(hist) :
              hist[i].op = "read_event" =>
                  \/ hist[i].val.ok
                  \/ ~hist[i].val.ok /\ hist[i].val.val.variant = "Io"
        /\ IsPrefix(ReturnedEvents, PushedEvents)

\* the reads and writes of the session among the entries of hist
IsWrite(i) == hist[i].op = "write" /\ hist[i].val

IsReplyRecv(i) == hist[i].op = "recv" /\ hist[i].kind \in {"sub_reply", "ws_reply"}

\* the first entry after i that is no read of the socket for a reply (0: none)
AfterReplyRecvs(i) ==
    LET later == {j \in (i + 1)..Len(hist) : ~IsReplyRecv(j)}
    IN  IF later = {} THEN 0 ELSE CHOOSE j \in later : \A k \in later : j <= k

\* C6: each request written to the session is followed at once by exactly
\* one decode of a reply, with no read_event and no other write in between;
\* at most one request is outstanding; a request is issued by the startup
\* subscription or inside the handling of one event that read_event has
\* returned, never while read_event is reading.
C6_SingleWriterSingleReader ==
    LET writes == {i \in 1..Len(hist) : IsWrite(i)}
        replies == {i \in 1..Len(hist) : hist[i].op = "read_response"}
        outstanding == Cardinality(writes) - Cardinality(replies)
    IN  /\ \A i \in writes :
              /\ \/ i = 1 /\ hist[i].kind = "Subscribe"
                 \/ i > 1 /\ hist[i].kind = "GetWorkspaces" /\ IsEventOf(i - 1, "Workspace")
              /\ IF AfterReplyRecvs(i) = 0
                 THEN pc \in {"sub_reply", "ws_reply"}
                 ELSE /\ hist[AfterReplyRecvs(i)].op = "read_response"
                      /\ hist[AfterReplyRecvs(i)].kind = hist[i].kind
        /\ \A j \in replies :
              \E i \in writes : i < j /\ AfterReplyRecvs(i) = j
        /\ \A j \in 1..Len(hist) :
              IsReplyRecv(j) => \E i \in writes : i < j /\ AfterReplyRecvs(i) \in {0} \cup (j + 1)..Len(hist)
        /\ outstanding = IF pc \in {"sub_reply", "ws_reply"} THEN 1 ELSE 0
        /\ pc \in {"sub_reply", "ws_reply"} => IsWrite(Len(hist)) \/ IsReplyRecv(Len(hist))

\* C6 witness: a GetWorkspaces request issued inside the handling of a
\* Workspace event got its reply, and the loop is back in read_event
C6_Witness ==
    \E i \in 1..Len(hist) :
        /\ IsWrite(i)
        /\ hist[i].kind = "GetWorkspaces"
        /\ AfterReplyRecvs(i) # 0
        /\ hist[AfterReplyRecvs(i)].val.ok
        /\ pc = "read_event"

\* C7: after a framing error on the session (invalid magic, unrecognized
\* tag), raised by read_event or by the reply decode of a request, the loop
\* is terminated and the stream is not read again.
C7_FramingErrorsAreFatal ==
    \A i \in 1..Len(hist) :
        ( /\ hist[i].op \in {"read_event", "read_response"}
          /\ ~hist[i].val.ok
          /\ hist[i].val.val.variant \in {"InvalidMagicString", "InvalidType", "InvalidEventType"} )
        => /\ pc = "terminated"
           /\ \A j \in (i + 1)..Len(hist) : hist[j].op # "recv"

\* C8: a Workspace event issues exactly one GetWorkspaces request, with an
\* empty payload; a failure of that request (write error, reply decode
\* error, deserialize error, sink error) does not end the loop, which goes
\* on to the next read_event.
C8_WorkspaceRequestNonFatal ==
    /\ \A i \in 1..Len(hist) :
          /\ IsEventOf(i, "Workspace") =>
                /\ i < Len(hist)
                /\ hist[i + 1].op = "write"
                /\ hist[i + 1].kind = "GetWorkspaces"
          /\ (hist[i].op = "write" /\ hist[i].kind = "GetWorkspaces") =>
                i > 1 /\ IsEventOf(i - 1, "Workspace")
          /\ (hist[i].op = "request" /\ hist[i].kind = "GetWorkspaces" /\ ~hist[i].val.ok) =>
                /\ hist[i].val.val.variant \in {"Io", "Read", "Deserialize", "Serialize", "Eww"}
                /\ i < Len(hist)
                /\ hist[i + 1] = H("handle_event", "Workspace",
                                   Err(E("Request", <<hist[i].val.val>>)))
                /\ NextIterationAfter(i + 1)
    /\ (pc = "ws_reply" /\ IsWrite(Len(hist))) =>
          \A i \in 1..Len(out) :
              out[i] = I3_MAGIC_STRING \o ToNeBytes(<<0, 0, 0, 0>>, endian)
                          \o ToNeBytes(MessageTypeTag.GetWorkspaces, endian)

\* C8 witness: the reply to a GetWorkspaces request did not decode, and
\* the loop is back in read_event
C8_Witness ==
    /\ pc = "read_event"
    /\ Len(hist) > 1
    /\ hist[Len(hist) - 1].op = "request"
    /\ hist[Len(hist) - 1].kind = "GetWorkspaces"
    /\ ~hist[Len(hist) - 1].val.ok
    /\ hist[Len(hist) - 1].val.val.variant = "Read"

\* C9: subscribe_event_loop returns in one of three ways only: a Shutdown
\* event was dispatched (success), read_event failed (that read error), the
\* startup Subscribe request failed (that subscription error).  No error of
\* handle_event ends the loop, and without a Shutdown event or a read failure
\* the loop does not return.  (A panic is not a return: pc = "panicked".)
C9_ThreeWaysToTerminate ==
    /\ pc # "terminated" => result = None
    /\ pc = "terminated" =>
          /\ result # None
          /\ \/ /\ result[1].ok
                /\ Len(hist) > 1
                /\ Last(hist) = H("handle_event", "Shutdown", Ok(TRUE))
                /\ IsEventOf(Len(hist) - 1, "Shutdown")
             \/ /\ ~result[1].ok
                /\ result[1].val.variant = "Read"
                /\ IsReadFailure(Len(hist))
                /\ result[1].val.data = <<Last(hist).val.val>>
             \/ /\ ~result[1].ok
                /\ result[1].val.variant = "Subscription"
                /\ Last(hist).op = "request"
                /\ Last(hist).kind = "Subscribe"
                /\ ~Last(hist).val.ok
                /\ result[1].val.data = <<Last(hist).val.val>>
    /\ \A i \in 1..Len(hist) :
          (hist[i].op = "handle_event" /\ ~hist[i].val.ok) => NextIterationAfter(i)
    /\ ( /\ \E i \in 1..Len(hist) :
               hist[i].op = "request" /\ hist[i].kind = "Subscribe" /\ hist[i].val.ok
         /\ \A i \in 1..Len(hist) : ~IsEventOf(i, "Shutdown") /\ ~IsReadFailure(i) )
       => pc # "terminated"

\* C9 witness: a handler error (a Mode event that does not deserialize) was
\* caught, and the loop ended later on a Shutdown event
C9_Witness ==
    /\ pc = "terminated"
    /\ result = Some(Ok(<<>>))
    /\ \E i \in 1..Len(hist) :
          hist[i].op = "handle_event" /\ hist[i].kind = "Mode" /\ ~hist[i].val.ok

\* C10: handle_response on a Subscribe reply: success = false gives the
\* UnsuccessfulSubscription error, success = true gives success, a payload
\* that is no {success: bool} object gives a Deserialize error.
C10_SubscribeReply ==
    \A i \in 1..Len(hist) :
        (hist[i].op = "read_response" /\ hist[i].val.ok /\ hist[i].val.val.type = "Subscribe") =>
            /\ i < Len(hist)
            /\ hist[i + 1].op = "request"
            /\ hist[i].val.val.payload = DocSuccessFalse =>
                  /\ ~hist[i + 1].val.ok
                  /\ hist[i + 1].val.val.variant = "UnsuccessfulSubscription"
            /\ hist[i].val.val.payload = DocSuccessTrue => hist[i + 1].val.ok
            /\ hist[i].val.val.payload \notin {DocSuccessFalse, DocSuccessTrue} =>
                  /\ ~hist[i + 1].val.ok
                  /\ hist[i + 1].val.val.variant = "Deserialize"

\* C10 witness: a Subscribe reply with the payload {} was handled
C10_Witness ==
    \E i \in 1..Len(hist) :
        /\ hist[i].op = "read_response"
        /\ hist[i].val.ok
        /\ hist[i].val.val.type = "Subscribe"
        /\ hist[i].val.val.payload = DocEmptyObject

\* the value of the member key of a JSON object, and the keys in order
Member(obj, key) == obj[CHOOSE k \in 1..Len(obj) : obj[k][1] = key][2]

Keys(obj) == [k \in 1..Len(obj) |-> obj[k][1]]

\* C11: handle_response on a GetWorkspaces reply, for any decodable listing
\* (any numbers, also none and numbers outside 1..8) whose workspaces have
\* the visible flag: the value given to the sink variable ws_info is an
\* array of exactly 8 objects, the i-th with num = i; when i is the number
\* of a listed workspace the object has active = true and the name, focused,
\* urgent and visible of a listed workspace with that number, otherwise it
\* is the placeholder with name = the decimal text of i and every flag false.
C11_WorkspaceInfoListing ==
    (IsApplied("HandleWorkspaces") /\ ~call[1].ret[1].panic) =>
        LET listed == call[1].arg.listed
            calls == call[1].ret[1].calls
            v == calls[1].val
        IN  /\ Len(calls) = 1
            /\ calls[1].var = "ws_info"
            /\ Len(v) = 8
            /\ \A i \in 1..8 :
                  /\ Keys(v[i]) = <<"name", "num", "focused", "urgent", "visible", "active">>
                  /\ Member(v[i], "num") = i
                  /\ IF \E j \in 1..Len(listed) : listed[j].num = i
                     THEN /\ Member(v[i], "active") = TRUE
                          /\ \E j \in 1..Len(listed) :
                                /\ listed[j].num = i
                                /\ Member(v[i], "name") = listed[j].name
                                /\ Member(v[i], "focused") = listed[j].focused
                                /\ Member(v[i], "urgent") = listed[j].urgent
                                /\ Member(v[i], "visible") = listed[j].visible[1]
                     ELSE /\ Member(v[i], "name") = ToString(i)
                          /\ Member(v[i], "active") = FALSE
                          /\ Member(v[i], "focused") = FALSE
                          /\ Member(v[i], "urgent") = FALSE
                          /\ Member(v[i], "visible") = FALSE

\* C11 witness: a listing of the workspaces numbered 2 and 5 was handled
C11_Witness ==
    /\ IsApplied("HandleWorkspaces")
    /\ ~call[1].ret[1].panic
    /\ Len(call[1].arg.listed) = 2
    /\ call[1].arg.listed[1].num = 2
    /\ call[1].arg.listed[2].num = 5
    /\ Len(call[1].ret[1].calls) = 1

\* the from_read call that returned or waits for the payload: its argument
\* and its outcome
Decoded == call[1].ret[1]

HasMagic == call[1].arg.magic = I3_MAGIC_STRING

\* the closed enumerations, by the numbers of the protocol
IsRequestTag(t) ==
    t[1] = 0 /\ t[2] = 0 /\ t[3] = 0 /\ t[4] \in (0..12) \cup {100, 101}

IsEventTag(t) ==
    t[1] = 128 /\ t[2] = 0 /\ t[3] = 0 /\ t[4] \in {0, 2, 3, 4, 5, 6, 7, 20, 21}

C13_TagInClosedEnumeration ==
    (IsApplied("FromRead") /\ HasMagic) =>
        LET a == call[1].arg
            reply == a.ctx = "reply"
            member == IF reply THEN IsRequestTag(a.tag) ELSE IsEventTag(a.tag)
            complete == a.len = <<0, 0, 0, 0>>
                        \/ (a.len = <<0, 0, 0, 2>> /\ a.rest = DocEmptyObject)
            kind == IF Decoded.done THEN Decoded.res.val.type ELSE Decoded.rd.type
        IN  IF ~member
            THEN /\ Decoded.done
                 /\ ~Decoded.res.ok
                 /\ Decoded.res.val.variant =
                        IF reply THEN "InvalidType" ELSE "InvalidEventType"
                 /\ Decoded.res.val.data = a.tag
            ELSE /\ Decoded.done <=> complete
                 /\ Decoded.done => Decoded.res.ok
                 /\ ~Decoded.done => Decoded.rd.stage = "payload"
                 /\ IF reply THEN MessageTypeTag[kind] = a.tag
                             ELSE EventTypeTag[kind] = a.tag

\* C13 witness: a reply header with the tag 13
C13_Witness ==
    /\ IsApplied("FromRead")
    /\ HasMagic
    /\ call[1].arg.ctx = "reply"
    /\ call[1].arg.tag = <<0, 0, 0, 13>>
    /\ ~Decoded.res.ok

\* the digits of n in the byte order of the host
NeDigits(n) ==
    IF endian = "little"
    THEN << n % 256, (n \div 256) % 256, (n \div 65536) % 256, (n \div 16777216) % 256 >>
    ELSE << (n \div 16777216) % 256, (n \div 65536) % 256, (n \div 256) % 256, n % 256 >>

\* C14: for every request kind k and payload of n bytes, the bytes a request
\* writes are the magic, n, the tag of k and the payload (no payload: n = 0
\* and no payload bytes); decoded as a reply they give kind k and a payload of
\* n bytes, and the decoded tag and length encode to the same 8 header bytes.
C14_HeaderRoundTrip ==
    IsApplied("RequestBytes") =>
        LET k == call[1].arg.request_type
            text == IF call[1].arg.payload = None THEN <<>> ELSE call[1].arg.payload[1]
            n == Len(text)
            bytes == call[1].ret[1]
            decoded == MessageFromRead(NewRead, bytes, endian)
        IN  /\ Len(bytes) = HEADER_LENGTH + n
            /\ SubSeq(bytes, 1, 6) = I3_MAGIC_STRING
            /\ SubSeq(bytes, 7, 10) = NeDigits(n)
            /\ SubSeq(bytes, 11, 14) = NeDigits(MessageTypeTag[k][4])
            /\ SubSeq(bytes, 15, Len(bytes)) = text
            /\ decoded.done
            /\ decoded.res.ok
            /\ decoded.res.val.type = k
            /\ decoded.res.val.payload = text
            /\ decoded.lost = <<>>
            /\ ToNeBytes(AsU32(Len(decoded.res.val.payload)), endian)
                  \o MessageTypeAsBytes(decoded.res.val.type, endian)
               = SubSeq(bytes, 7, 14)

\* C14 witness: a GetInputs request with the longest payload, and a
\* request without payload
C14_Witness ==
    /\ IsApplied("RequestBytes")
    /\ call[1].arg.request_type = "GetInputs"
    /\ call[1].arg.payload # None
    /\ Len(call[1].arg.payload[1]) = MaxPayload
    /\ endian = "little"

\* the variant each token of the protocol stands for
ChangeOfToken ==
    [ init |-> "Init", empty |-> "Empty", focus |-> "Focus", move |-> "Move",
      rename |-> "Rename", urgent |-> "Urgent", reload |-> "Reload" ]

\* C15: WorkspaceEventChange::from_str accepts exactly the 7 lowercase
\* tokens init, empty, focus, move, rename, urgent, reload, each giving its
\* own variant, and rejects every other text (other cases, the empty text)
\* with the parse error that carries the text unchanged.
C15_ChangeTokens ==
    IsApplied("WorkspaceEventChangeFromStr") =>
        LET token == call[1].arg
            parsed == call[1].ret[1]
        IN  /\ parsed.ok <=> token \in DOMAIN ChangeOfToken
            /\ parsed.ok => parsed.val = ChangeOfToken[token]
            /\ ~parsed.ok => parsed.val = E("Invalid", token)
            /\ \A t, u \in DOMAIN ChangeOfToken : ChangeOfToken[t] = ChangeOfToken[u] => t = u

\* C15 witness: the text FOCUS was rejected
C15_Witness ==
    /\ IsApplied("WorkspaceEventChangeFromStr")
    /\ call[1].arg = "FOCUS"
    /\ ~call[1].ret[1].ok

\* the entries of a log with the operation op
LogOf(log, op) == SelectSeq(log, LAMBDA h : h.op = op)

\* C16: the reply to a request is handled by the kind of the request that
\* was sent, not by the tag of the reply frame: the reply to GetWorkspaces
\* as a workspace listing, the reply to Subscribe as a subscription
\* acknowledgement, whatever the tag.
C16_DispatchByRequestSent ==
    IsApplied("RequestReply") =>
        LET a == call[1].arg
            expected == IF a.request_type = "GetWorkspaces"
                        THEN HandleGetWorkspaces(a.read.val.payload, a.outcome)
                        ELSE HandleSubscribe(a.read.val.payload)
            log == call[1].ret[1].log
            request == LogOf(log, "request")
        IN  /\ LogOf(log, "set_var") = Calls(expected.calls)
            /\ Len(request) = 1
            /\ request[1].val.ok = expected.res.ok
            /\ ~expected.res.ok => request[1].val.val.variant = expected.res.val.variant

\* C20: every event tag has bit 31 set and every request tag has it clear;
\* an event frame given to the reply decode and a reply frame given to the
\* event decode give the invalid-tag error; no header is accepted by both.
C20_TagSetsDisjoint ==
    /\ \A k \in DOMAIN EventTypeTag : EventTypeTag[k][1] >= 128
    /\ \A k \in DOMAIN MessageTypeTag : MessageTypeTag[k][1] < 128
    /\ (IsApplied("FromRead") /\ HasMagic) =>
          LET a == call[1].arg
              header == Take(WireBytes(a, endian), HEADER_LENGTH)
              is_event == \E k \in DOMAIN EventTypeTag : EventTypeTag[k] = a.tag
              is_reply == \E k \in DOMAIN MessageTypeTag : MessageTypeTag[k] = a.tag
          IN  /\ (a.ctx = "reply" /\ is_event) =>
                    /\ Decoded.done
                    /\ Decoded.res = Err(E("InvalidType", a.tag))
              /\ (a.ctx = "event" /\ is_reply) =>
                    /\ Decoded.done
                    /\ Decoded.res = Err(E("InvalidEventType", a.tag))
              /\ ~(MessageHeader(header, endian).ok /\ EventHeader(header, endian).ok)

\* C20 witness: a Window event's header given to the reply decode
C20_Witness ==
    /\ IsApplied("FromRead")
    /\ HasMagic
    /\ call[1].arg.ctx = "reply"
    /\ call[1].arg.tag = EventTypeTag.Window
    /\ ~Decoded.res.ok

\* a frame decode returned at entry i of hist
IsDecode(i) == hist[i].op \in {"read_event", "read_response"}

C18_DecodeIsAtomic ==
    \A i \in 1..Len(hist) :
        /\ (IsDecode(i) /\ hist[i].val.ok) =>
              /\ hist[i - 1].op = "recv"
              /\ hist[i - 1].val[1] > 0
              /\ \E k \in 1..Len(sent) :
                    /\ sent[k].ctx = IF hist[i].op = "read_event" THEN "event" ELSE "reply"
                    /\ sent[k].type = hist[i].val.val.type
                    /\ sent[k].payload = hist[i].val.val.payload
        /\ (hist[i].op = "recv" /\ hist[i].val[1] = 0) =>
              /\ i < Len(hist)
              /\ IsDecode(i + 1)
              /\ ~hist[i + 1].val.ok
              /\ hist[i + 1].val.val.variant = "Io"
        /\ (IsDecode(i) /\ ~hist[i].val.ok /\ hist[i].val.val.variant = "Io") =>
              hist[i - 1].op = "recv" /\ hist[i - 1].val[1] = 0

\* C18 witness: the stream ended after the header and one byte of a
\* payload of two, and read_event failed with an I/O error
C18_Witness ==
    \E i \in 1..Len(hist) :
        /\ i + 2 <= Len(hist)
        /\ hist[i].op = "recv"
        /\ hist[i].val[1] = HEADER_LENGTH + 1
        /\ hist[i + 1].op = "recv"
        /\ hist[i + 1].val[1] = 0
        /\ hist[i + 2].op = "read_event"
        /\ ~hist[i + 2].val.ok

\* the bytes taken from the socket by the reads that end at entry k
RECURSIVE Consumed(_)
Consumed(k) ==
    IF k = 0 \/ hist[k].op # "recv" THEN 0 ELSE hist[k].val[1] + Consumed(k - 1)

\* C19: a successful decode takes exactly 14 + payload_len bytes from the
\* connection's stream, so that frames delivered back to back are returned
\* one by one by successive decodes: no byte of a later frame is taken or
\* dropped by an earlier decode.
C19_DecodeConsumesItsFrameOnly ==
    \A i \in 1..Len(hist) :
        (IsDecode(i) /\ hist[i].val.ok) =>
            /\ Consumed(i - 1) = HEADER_LENGTH + Len(hist[i].val.val.payload)
            /\ hist[i - 1].val[2] = 0


\* ------------------------------------------------------------------------
\* C21
\* ------------------------------------------------------------------------

\* the kinds handle_event has no arm for
UnhandledKinds == {"BarConfigUpdate", "Binding", "Tick", "BarStateUpdate", "Input"}

\* the iteration of subscribe_event_loop applied on its own returned: the
\* event it was given, and where it left the loop
Iterated == IsApplied("Dispatch")

IteratedEvent == call[1].arg.read.val

Iteration == call[1].ret[1]

\* the iteration made no request, and goes on with the next read_event
ContinuesWithoutRequest(g) ==
    /\ LogOf(g.log, "write") = <<>>
    /\ LogOf(g.log, "request") = <<>>
    /\ g.out = out
    /\ g.pc = "read_event"
    /\ g.result = None

\* C21: an event of kind BarConfigUpdate, Binding, Tick, BarStateUpdate or
\* Input, whatever its payload (a text that is not JSON too), makes no sink
\* call and no request, and handle_event returns Ok(false); a Window event
\* whose container has no name makes no sink call; a Window event whose
\* container has a name makes exactly one sink call, active_window set to
\* that name; in each of these cases the loop goes on with the next
\* read_event.
C21_EventsThatChangeNothing ==
    Iterated =>
        LET e == IteratedEvent
            g == Iteration
            window == WindowEventFromStr(e.payload)
            o1 == call[1].arg.outcome1
        IN  /\ e.type \in UnhandledKinds =>
                /\ g.log = <<H("read_event", "", Ok(e)),
                             H("handle_event", e.type, Ok(FALSE))>>
                /\ ContinuesWithoutRequest(g)
            /\ (e.type = "Window" /\ window.ok /\ window.val.container.name = None) =>
                /\ LogOf(g.log, "set_var") = <<>>
                /\ Last(g.log) = H("handle_event", "Window", Ok(FALSE))
                /\ ContinuesWithoutRequest(g)
            /\ (e.type = "Window" /\ window.ok /\ window.val.container.name # None) =>
                /\ LogOf(g.log, "set_var") =
                       <<H("set_var", "active_window",
                           <<window.val.container.name[1], o1>>)>>
                /\ Last(g.log).op = "handle_event"
                /\ Last(g.log).val.ok = (o1 # "io_error")
                /\ ContinuesWithoutRequest(g)

\* a Tick event whose payload is not JSON was handled, and the loop reads
\* the next event
C21_Witness ==
    /\ Iterated
    /\ IteratedEvent.type = "Tick"
    /\ IteratedEvent.payload = DocNotJson
    /\ Iteration.pc = "read_event"


\* ------------------------------------------------------------------------
\* C22
\* ------------------------------------------------------------------------

\* the reply decoded at entry i is a workspace listing that deserializes
\* and has an entry without the visible flag
IsListingWithoutVisible(i) ==
    /\ hist[i].op = "read_response"
    /\ hist[i].val.ok
    /\ hist[i].val.val.type = "GetWorkspaces"
    /\ LET listed == WorkspacesFromStr(hist[i].val.val.payload)
       IN  /\ listed.ok
           /\ \E j \in 1..Len(listed.val) : listed.val[j].visible = None

\* C22: a GetWorkspaces reply that deserializes but has an entry without
\* the visible flag is a fault at the unwrap and not a Deserialize error:
\* the decode of the reply is the last thing the daemon did (no sink call,
\* no result of the request or of handle_event, no further read_event), and
\* subscribe_event_loop has not returned.
C22_MissingVisibleIsAFault ==
    \A i \in 1..Len(hist) :
        IsListingWithoutVisible(i) =>
            /\ i = Len(hist)
            /\ pc = "panicked"
            /\ result = None

\* the peer answered GetWorkspaces with a listing whose entry lacks the
\* visible flag, and the daemon decoded it
C22_Witness ==
    /\ hist # <<>>
    /\ IsListingWithoutVisible(Len(hist))
    /\ hist[Len(hist)].kind = "GetWorkspaces"
    /\ pc = "panicked"


\* ------------------------------------------------------------------------
\* C23
\* ------------------------------------------------------------------------

\* the entry at which handle_event returned for the event of entry i: the
\* first handle_event after i (0: it has not returned)
HandledAt(i) ==
    LET later == {j \in (i + 1)..Len(hist) : hist[j].op = "handle_event"}
    IN  IF later = {} THEN 0 ELSE CHOOSE j \in later : \A k \in later : j <= k

\* the entries of the handling of the event of entry i
Handling(i) ==
    IF HandledAt(i) = 0 THEN (i + 1)..Len(hist) ELSE (i + 1)..(HandledAt(i) - 1)

\* the sink variables an event of the kind sets
SinkVarsOf(type) ==
    CASE type = "Window" -> {"active_window"}
      [] type = "Mode" -> {"binding_mode", "binding_active"}
      [] type = "Workspace" -> {"ws_info"}
      [] OTHER -> {}

\* C23: events are handled one at a time and in arrival order.  Between the
\* return of read_event with an event and the return of handle_event for it
\* there are only that event's sink calls and its request (write, reads of
\* the socket for the reply, decode of the reply, result); no read_event
\* begins in between; the request of a Workspace event has its result before
\* handle_event returns; every sink call lies in the handling of the latest
\* event read and sets a variable of that event's kind; and at most one
\* event is without its handle_event result, the loop then being inside its
\* request (or dead at the unwrap).
C23_OneEventAtATime ==
    LET evs == {i \in 1..Len(hist) : IsEvent(i)}
        unhandled == {i \in evs : HandledAt(i) = 0}
    IN  /\ \A i \in evs :
              /\ \A k \in Handling(i) :
                    \/ hist[k].op \in {"set_var", "write", "read_response", "request"}
                    \/ hist[k].op = "recv" /\ hist[k].kind = "ws_reply"
              /\ HandledAt(i) # 0 =>
                    /\ hist[HandledAt(i)].kind = hist[i].val.val.type
                    /\ hist[i].val.val.type = "Workspace" =>
                          /\ hist[HandledAt(i) - 1].op = "request"
                          /\ hist[HandledAt(i) - 1].kind = "GetWorkspaces"
                    /\ HandledAt(i) < Len(hist) =>
                          /\ hist[HandledAt(i) + 1].op = "recv"
                          /\ hist[HandledAt(i) + 1].kind = "read_event"
              /\ HandledAt(i) = 0 => pc \in {"ws_reply", "panicked"}
        /\ \A k \in 1..Len(hist) :
              hist[k].op = "set_var" =>
                  \E i \in evs :
                      /\ k \in Handling(i)
                      /\ hist[k].kind \in SinkVarsOf(hist[i].val.val.type)
        /\ \A k \in 1..Len(hist) :
              (hist[k].op = "recv" /\ hist[k].kind = "read_event") =>
                  \A i \in evs : i < k => HandledAt(i) \in 1..(k - 1)
        /\ Cardinality(unhandled) <= 1

\* two events were handled one after the other, each with a sink call: the
\* call of the first lies before the read_event of the second
C23_Witness ==
    \E i, j \in 1..Len(hist) :
        /\ i < j
        /\ IsEvent(i) /\ IsEvent(j)
        /\ HandledAt(i) # 0 /\ HandledAt(i) < j
        /\ HandledAt(j) # 0
        /\ \E k \in Handling(i) : hist[k].op = "set_var"
        /\ \E k \in Handling(j) : hist[k].op = "set_var"


\* ------------------------------------------------------------------------
\* C24
\* ------------------------------------------------------------------------

\* the iteration was given a Mode event whose payload deserializes with a
\* mode name other than "default"
IteratedBindingMode ==
    /\ Iterated
    /\ IteratedEvent.type = "Mode"
    /\ ModeEventFromStr(IteratedEvent.payload).ok
    /\ ModeEventFromStr(IteratedEvent.payload).val.change # "default"

\* C24: in the handling of a Mode event with a mode name other than
\* "default", binding_mode=<name> is called first; when that call fails with
\* an I/O error no binding_active call is made for the event and
\* handle_event returns that error; when it returns, with a successful exit
\* status or an unsuccessful one, binding_active=true is called next.
C24_BindingActiveAfterBindingMode ==
    IteratedBindingMode =>
        LET mode == ModeEventFromStr(IteratedEvent.payload).val.change
            o1 == call[1].arg.outcome1
            o2 == call[1].arg.outcome2
            calls == LogOf(Iteration.log, "set_var")
            handled == Last(Iteration.log)
        IN  /\ handled.op = "handle_event"
            /\ IF o1 = "io_error"
               THEN /\ calls = <<H("set_var", "binding_mode", <<mode, o1>>)>>
                    /\ handled.val = Err(E("Eww", <<E("Io", <<>>)>>))
               ELSE /\ calls = <<H("set_var", "binding_mode", <<mode, o1>>),
                                 H("set_var", "binding_active", <<TRUE, o2>>)>>
                    /\ handled.val.ok = (o2 # "io_error")

\* the binding_mode call of a resize event ended with an unsuccessful exit
\* status, and binding_active=true was called after it
C24_Witness ==
    /\ IteratedBindingMode
    /\ call[1].arg.outcome1 = "exit_failure"
    /\ Len(LogOf(Iteration.log, "set_var")) = 2
    /\ LogOf(Iteration.log, "set_var")[2].kind = "binding_active"

====
